---- MODULE Spec2Model ----
(***************************************************************************)
(* A model of the dashvision sales and stock pipeline:                     *)
(*   - MercadoLivreAPI.get_sales_data (src/src/api/mercadolivre.py): order *)
(*     pagination, shipment cost resolution, per-order processing;         *)
(*   - MercadoLivreAPI._make_request: the request with token renewal;      *)
(*   - exibir_gestao_estoque (src/src/main.py): the conciliation form and  *)
(*     its save.                                                           *)
(* Money is modelled in whole currency units, time in whole hours.         *)
(***************************************************************************)
EXTENDS Integers, Sequences, FiniteSets, TLC

VARIABLES
    \* ---- get_sales_data ----
    upstream,            \* the orders the order-search endpoint holds for the seller
    start_date,          \* start_date_brt.date(), a civil day number
    end_date,            \* end_date_brt.date()
    pc,                  \* position of get_sales_data
    offset,              \* params['offset'] (0 while the key is not set)
    requests,            \* offsets of the order-search requests issued, in order
    all_orders,          \* all_orders
    unique_shipping_ids, \* unique_shipping_ids, a list
    lookup,              \* state of the k-th lookup task of asyncio.gather
    reqCount,            \* requests issued to the shipment endpoint, per shipment id
    shipment_dict,       \* shipment_dict: shipment id -> <<logistic_type, cost>>
    idx,                 \* number of orders of all_orders already processed
    sales_data,          \* sales_data
    warnings,            \* ids of the orders for which a warning was logged
    qtd_total,
    fat_total,
    result,              \* what get_sales_data returned
    \* ---- _make_request ----
    rq,                  \* the state of one _make_request call and its token manager
    \* ---- conciliation form ----
    cf,                  \* the persisted tables and the form of exibir_gestao_estoque
    \* ---- stock normalizers ----
    nz,                  \* the last normalizer call: its input and what it returned
    \* ---- shipment lookups across runs ----
    memo                 \* the lru_cache of get_shipment_details_async and its requests

salesVars == <<upstream, start_date, end_date, pc, offset, requests, all_orders,
               unique_shipping_ids, lookup, reqCount, shipment_dict, idx,
               sales_data, warnings, qtd_total, fat_total, result>>

vars == <<upstream, start_date, end_date, pc, offset, requests, all_orders,
          unique_shipping_ids, lookup, reqCount, shipment_dict, idx,
          sales_data, warnings, qtd_total, fat_total, result, rq, cf, nz, memo>>

(***************************************************************************)
(* Bounds of the model                                                     *)
(***************************************************************************)
MaxOrders == 2      \* orders in a detailed batch
MaxItems == 2       \* line items of an order
MaxShip == 2        \* distinct shipment ids
MaxDay == 2         \* civil days a date range is drawn from: 1..MaxDay
MaxTotal == 150     \* orders in a long (pagination) batch
MaxCalls == 3       \* calls of _make_request / _make_request_async on one client
MaxAttempts == 5    \* GETs sent within one call (the recursion is cut there)
MaxWh == 2          \* warehouse (Mercos) SKUs: 1..MaxWh
MaxRef == 2         \* marketplace reference SKUs: 1..MaxRef
MaxRaw == 2         \* rows of a payload handed to a stock normalizer
MaxMemoRuns == 3    \* runs of get_all_shipment_details in one process
MaxVar == 2         \* variations of a listing
MaxListings == 2    \* active listings of the seller

(***************************************************************************)
(* Program constants                                                       *)
(***************************************************************************)
Limit == 50             \* params["limit"]
BrtOffsetHours == 3
NameMax == 70     \* America/Sao_Paulo is UTC-3

Min(a, b) == IF a <= b THEN a ELSE b

SeqsUpTo(S, n) == UNION {[1..k -> S] : k \in 1..n}

RECURSIVE SeqSum(_)
SeqSum(s) == IF s = <<>> THEN 0 ELSE Head(s) + SeqSum(Tail(s))

Range(s) == {s[i] : i \in 1..Len(s)}

(***************************************************************************)
(* Orders as the order-search endpoint returns them.  A key that is absent *)
(* from the JSON object is listed in "absent"; the value kept under it is  *)
(* then never read.                                                        *)
(***************************************************************************)
OrderKeys == {"date_closed", "order_items", "payments", "paid_amount",
              "shipping", "shipping.id", "status"}
ItemKeys == {"seller_sku", "quantity", "unit_price"}

Statuses == {"paid", "cancelled", "partially_refunded"}
Qtys == {1, 2}
Prices == {75, 100}
Amounts == {150, 200}
ShipIds == 1..MaxShip
Days == 1..MaxDay

\* Closing timestamps as the API sends them: a local hour count with a UTC
\* offset of -4 hours.  For each day d they are 23:00 of the civil day d-1 and
\* 00:00 of the civil day d in America/Sao_Paulo.
ClosedStamps == {[h |-> 24 * d + u - 4, off |-> 0 - 4] : d \in 1..(MaxDay + 1), u \in {2, 3}}

MkItem(sku, qty, price, abs) ==
    [seller_sku |-> sku, quantity |-> qty, unit_price |-> price, absent |-> abs]

MkOrder(id, status, ts, items, paid, ship, abs) ==
    [id |-> id, status |-> status, date_closed |-> ts, order_items |-> items,
     paid_amount |-> paid, shipping_id |-> ship, absent |-> abs]

\* The shipment endpoint's data: shipment id -> logistic_type and
\* shipping_option.cost.
ShipmentType(id) == IF id % 2 = 1 THEN "fulfillment" ELSE "cross_docking"
ShipmentCost(id) == 5 * id

ShipmentDetails(id) == <<ShipmentType(id), ShipmentCost(id)>>

(***************************************************************************)
(* _make_request (lines 130-159) and _make_request_async (lines 263-286)   *)
(* on one client and its MLTokenManager (lines 35-89)                      *)
(***************************************************************************)
\* after MercadoLivreAPI.__init__: no token yet (lines 41-42)
RqInit ==
    [pc |-> "idle", mode |-> "sync", access_token |-> FALSE,
     refresh_token_value |-> FALSE, calls |-> 0, attempts |-> 0, renewals |-> 0,
     outcome |-> "none"]

Responses == {"200", "401", "500", "connection"}

\* a caller calls _make_request (sync) or _make_request_async (async)
ReqCall(mode) ==
    /\ rq.pc = "idle"
    /\ rq.calls < MaxCalls
    /\ rq' = [rq EXCEPT !.pc = "enter", !.mode = mode, !.calls = @ + 1,
                        !.attempts = 0, !.renewals = 0, !.outcome = "none"]
    /\ UNCHANGED <<salesVars, cf, nz, memo>>

\* lines 133-134: no token yet, authenticate() obtains one; the token endpoint
\* may or may not send a refresh_token
ReqAuthenticate(has_refresh) ==
    /\ rq.pc = "enter"
    /\ ~rq.access_token
    /\ rq.mode = "sync"
    /\ rq' = [rq EXCEPT !.pc = "get", !.access_token = TRUE,
                        !.refresh_token_value = has_refresh]
    /\ UNCHANGED <<salesVars, cf, nz, memo>>

\* authenticate() raises MercadoLivreAPIError (line 64); the async version
\* calls authenticate_async, which MLTokenManager does not define (line 267)
ReqAuthenticateFails ==
    /\ rq.pc = "enter"
    /\ ~rq.access_token
    /\ rq' = [rq EXCEPT !.pc = "idle", !.outcome = "error"]
    /\ UNCHANGED <<salesVars, cf, nz, memo>>

\* lines 136-147: the GET is sent and answered
ReqGet(response) ==
    /\ \/ rq.pc = "get"
       \/ rq.pc = "enter" /\ rq.access_token
    /\ rq.attempts < MaxAttempts
    /\ rq' = [rq EXCEPT
                !.attempts = @ + 1,
                !.pc = IF response = "401" THEN "renew" ELSE "idle",
                !.outcome = IF response = "200" THEN "ok"
                            ELSE IF response = "401" THEN "none" ELSE "error"]
    /\ UNCHANGED <<salesVars, cf, nz, memo>>

\* lines 150-153: on a 401 renew_token() and call _make_request again.
\* renew_token raises without a refresh token (line 69) or when the token
\* endpoint refuses (line 89); the async version calls renew_token_async,
\* which MLTokenManager does not define (line 279)
ReqRenew(accepted) ==
    /\ rq.pc = "renew"
    /\ IF rq.mode = "sync" /\ rq.refresh_token_value
          THEN rq' = [rq EXCEPT !.renewals = IF accepted THEN @ + 1 ELSE @,
                                !.pc = IF accepted THEN "enter" ELSE "idle",
                                !.outcome = IF accepted THEN "none" ELSE "error"]
          ELSE rq' = [rq EXCEPT !.pc = "idle", !.outcome = "error"]
    /\ UNCHANGED <<salesVars, cf, nz, memo>>

NextReq ==
    \/ \E mode \in {"sync", "async"} : ReqCall(mode)
    \/ \E has_refresh \in BOOLEAN : ReqAuthenticate(has_refresh)
    \/ ReqAuthenticateFails
    \/ \E response \in Responses : ReqGet(response)
    \/ \E accepted \in BOOLEAN : ReqRenew(accepted)

(***************************************************************************)
(* The conciliation form of exibir_gestao_estoque (src/src/main.py lines   *)
(* 511-711) over the tables estoque_mercos and conciliacao_mercos.         *)
(* A marketplace SKU of 0 is the empty string; a quantity of 0 in estoque  *)
(* means the table has no row for the warehouse SKU.                       *)
(***************************************************************************)
WhSkus == 1..MaxWh
RefSkus == 1..MaxRef
Quantidades == {7, 10}
Filtros == {"Todos", "Conciliados", "Nao Conciliados"}

NoRow == [sku_ml_amazon |-> 0, estoque_mercos |-> 0]

\* what a stock source hands to carregar_dados_completos: the rows of its
\* frame, or raised when gerar_relatorio_estoque ended in an exception
NoFeed == [raised |-> FALSE, rows |-> <<>>]

\* a warehouse SKU that has no entry in the list conciliacoes of the form
NotInForm == [in_form |-> FALSE, sku_ml_amazon |-> 0, estoque_mercos |-> 0]

\* both tables empty, as create_all leaves them, and no form submitted yet
CfInit ==
    [estoque |-> [w \in WhSkus |-> 0],
     conc |-> [w \in WhSkus |-> NoRow],
     submitted |-> FALSE,
     conciliacoes |-> [w \in WhSkus |-> NotInForm],
     loaded |-> "none",
     ml_data |-> NoFeed,
     amazon_data |-> NoFeed,
     interno_df |-> <<>>,
     df_completo |-> <<>>]

\* the contents of estoque_mercos: the quantity of each warehouse SKU, 0 for a
\* SKU without a row
EstoqueTables == [WhSkus -> {0} \cup Quantidades]

\* the statement of salvar_estoque_mercos that raises, if any: the delete
\* (line 68), an insert (lines 71-78) or the commit (line 81)
SaveFailures == {"none", "delete", "insert", "commit"}

\* a save whose statements are committed one by one: a failure after the
\* delete leaves the table empty
SalvarEstoqueMercosTx_NoRollback(table, df, fails) ==
    IF fails = "none" THEN [table |-> df, raised |-> FALSE]
    ELSE IF fails = "delete" THEN [table |-> table, raised |-> TRUE]
    ELSE [table |-> [w \in WhSkus |-> 0], raised |-> TRUE]

\* database.py lines 63-86: the delete and the inserts run in the session's
\* transaction; commit makes them visible together, and an exception before
\* the commit returns leaves the with block, whose exit closes the session and
\* rolls the transaction back, before line 86 raises it again
SalvarEstoqueMercosTx(table, df, fails) ==
    IF fails = "none" THEN [table |-> df, raised |-> FALSE]
    ELSE [table |-> table, raised |-> TRUE]

\* DatabaseManager.salvar_estoque_mercos with the rows of the scrape that have
\* a positive quantity: the table is replaced.  The scrape is another run of
\* the script than the one that handled a submission, whose list
\* conciliacoes is gone
SalvarEstoqueMercos(rows) ==
    /\ cf' = [cf EXCEPT !.estoque = SalvarEstoqueMercosTx(cf.estoque, rows, "none").table,
                         !.submitted = FALSE,
                         !.conciliacoes = [w \in WhSkus |-> NotInForm]]
    /\ UNCHANGED <<salesVars, rq, nz, memo>>

\* produtos_mercos after the merge with produtos_conciliados, filtered by
\* filtro_status (lines 586-610): the warehouse SKUs of the form's rows
FormRows(filtro) ==
    {w \in WhSkus :
        /\ cf.estoque[w] # 0
        /\ filtro = "Conciliados" => cf.conc[w].sku_ml_amazon # 0
        /\ filtro = "Nao Conciliados" => cf.conc[w].sku_ml_amazon = 0}

\* lines 632-634: the marketplace SKUs of the persisted mappings, one
\* occurrence of the row's own SKU removed
InSkusConciliados(w, m) ==
    Cardinality({v \in WhSkus : cf.conc[v].sku_ml_amazon = m})
        - (IF cf.conc[w].sku_ml_amazon = m THEN 1 ELSE 0) > 0

\* lines 637-644: the options of the row's selectbox
AvailableOptions(w) ==
    {0}
    \cup (IF cf.conc[w].sku_ml_amazon # 0 THEN {cf.conc[w].sku_ml_amazon} ELSE {})
    \cup {m \in RefSkus : ~InSkusConciliados(w, m)}

\* lines 674-685: the list conciliacoes the form builds, one entry per row
\* of df_form with the row's selection and the row's live quantity
Conciliacoes(filtro, sku_online) ==
    [w \in WhSkus |->
        IF w \in FormRows(filtro)
            THEN [in_form |-> TRUE, sku_ml_amazon |-> sku_online[w],
                  estoque_mercos |-> cf.estoque[w]]
            ELSE NotInForm]

\* a save that deletes every mapping before it inserts the submitted ones
SalvarConciliacao_DeletesAll(filtro, sku_online) ==
    /\ \E w \in WhSkus : cf.estoque[w] # 0
    /\ DOMAIN sku_online = FormRows(filtro)
    /\ \A w \in FormRows(filtro) : sku_online[w] \in AvailableOptions(w)
    /\ cf' = [cf EXCEPT
                !.submitted = TRUE,
                !.conciliacoes = Conciliacoes(filtro, sku_online),
                !.conc =
                    [w \in WhSkus |->
                        IF w \in FormRows(filtro) /\ sku_online[w] # 0
                            THEN [sku_ml_amazon |-> sku_online[w],
                                  estoque_mercos |-> cf.estoque[w]]
                            ELSE NoRow]]
    /\ UNCHANGED <<salesVars, rq, nz, memo>>

\* a save that inserts every submitted row, selected or not
SalvarConciliacao_InsertsEmpty(filtro, sku_online) ==
    /\ \E w \in WhSkus : cf.estoque[w] # 0
    /\ DOMAIN sku_online = FormRows(filtro)
    /\ \A w \in FormRows(filtro) : sku_online[w] \in AvailableOptions(w)
    /\ cf' = [cf EXCEPT
                !.submitted = TRUE,
                !.conciliacoes = Conciliacoes(filtro, sku_online),
                !.conc =
                    [w \in WhSkus |->
                        IF w \notin FormRows(filtro) THEN cf.conc[w]
                        ELSE [sku_ml_amazon |-> sku_online[w],
                              estoque_mercos |-> cf.estoque[w]]]]
    /\ UNCHANGED <<salesVars, rq, nz, memo>>

\* lines 688-705: the form is submitted with one selection per row; the
\* mappings of the form's warehouse SKUs are deleted (lines 692-697) and the
\* rows with a selection are inserted (lines 700-703), in one transaction
SalvarConciliacao(filtro, sku_online) ==
    /\ \E w \in WhSkus : cf.estoque[w] # 0
    /\ DOMAIN sku_online = FormRows(filtro)
    /\ \A w \in FormRows(filtro) : sku_online[w] \in AvailableOptions(w)
    /\ cf' = [cf EXCEPT
                !.submitted = TRUE,
                !.conciliacoes = Conciliacoes(filtro, sku_online),
                !.conc =
                    [w \in WhSkus |->
                        IF w \notin FormRows(filtro) THEN cf.conc[w]
                        ELSE IF sku_online[w] # 0
                                THEN [sku_ml_amazon |-> sku_online[w],
                                      estoque_mercos |-> cf.estoque[w]]
                                ELSE NoRow]]
    /\ UNCHANGED <<salesVars, rq, nz, memo>>

NextConc ==
    \/ \E rows \in EstoqueTables : SalvarEstoqueMercos(rows)
    \/ \E filtro \in Filtros :
         \E sku_online \in [FormRows(filtro) -> {0} \cup RefSkus] :
            SalvarConciliacao(filtro, sku_online)

(***************************************************************************)
(* The unified stock view: carregar_estoque_interno and                    *)
(* carregar_dados_completos (src/src/main.py lines 92-205).  A product     *)
(* name is a number; the warehouse product of warehouse SKU w has name w.  *)
(***************************************************************************)
Occ(r, rows) == Cardinality({k \in DOMAIN rows : rows[k] = r})

\* lines 102-112: df_mercos, the rows of estoque_mercos
DfMercos ==
    SelectSeq([w \in 1..MaxWh |-> [SKU |-> w, Estoque |-> cf.estoque[w]]],
              LAMBDA r : r.Estoque # 0)

\* lines 118-128: df_conciliacoes, the rows of conciliacao_mercos
DfConciliacoes ==
    SelectSeq([w \in 1..MaxWh |->
                  [sku_mercos |-> w,
                   sku_ml_amazon |-> cf.conc[w].sku_ml_amazon,
                   estoque_mercos |-> cf.conc[w].estoque_mercos]],
              LAMBDA r : cf.conc[r.sku_mercos] # NoRow)

\* lines 133-140: the rows with a marketplace SKU, columns renamed
DfFiltrado ==
    LET kept == SelectSeq(DfConciliacoes, LAMBDA r : r.sku_ml_amazon # 0)
    IN  [k \in DOMAIN kept |->
            [sku_mercos |-> kept[k].sku_mercos,
             SKU |-> kept[k].sku_ml_amazon,
             Produto |-> kept[k].sku_mercos,
             Deposito |-> "Mercos",
             Estoque |-> kept[k].estoque_mercos]]

\* an inner loop that never overrides the cached quantity
OverrideRow_KeepsCached(reg_mercos, df) ==
    df

\* an inner loop that writes the quantity to every row of the marketplace SKU
\* the warehouse SKU is mapped to
OverrideRow_ByMarketplaceSku(reg_mercos, df) ==
    [k \in DOMAIN df |->
        IF /\ \E j \in DOMAIN df : /\ reg_mercos.SKU = df[j].sku_mercos
                                    /\ df[j].SKU = df[k].SKU
           /\ reg_mercos.Estoque # df[k].Estoque
            THEN [df[k] EXCEPT !.Estoque = reg_mercos.Estoque]
            ELSE df[k]]

\* lines 144-148: the inner loop for one row of df_mercos
OverrideRow(reg_mercos, df) ==
    [k \in DOMAIN df |->
        IF /\ reg_mercos.SKU = df[k].sku_mercos
           /\ reg_mercos.Estoque # df[k].Estoque
            THEN [df[k] EXCEPT !.Estoque = reg_mercos.Estoque]
            ELSE df[k]]

\* lines 143-148: the outer loop over df_mercos
RECURSIVE OverrideAll(_, _)
OverrideAll(mercos, df) ==
    IF mercos = <<>> THEN df
    ELSE OverrideAll(Tail(mercos), OverrideRow(Head(mercos), df))

\* line 151: the four columns of the result
FourColumns(df) ==
    [k \in DOMAIN df |->
        [SKU |-> df[k].SKU, Produto |-> df[k].Produto,
         Deposito |-> df[k].Deposito, Estoque |-> df[k].Estoque]]

\* lines 92-157: the frame carregar_estoque_interno returns
EstoqueInternoDf ==
    IF DfMercos = <<>> THEN <<>>
    ELSE IF DfConciliacoes = <<>> THEN <<>>
    ELSE FourColumns(OverrideAll(DfMercos, DfFiltrado))

\* a run that writes the overridden quantities back to conciliacao_mercos
CarregarEstoqueInterno_WritesBack ==
    /\ cf' = [cf EXCEPT !.loaded = "interno",
                         !.interno_df = EstoqueInternoDf,
                         !.conc = [w \in WhSkus |->
                                     IF cf.conc[w] # NoRow /\ cf.estoque[w] # 0
                                        THEN [cf.conc[w] EXCEPT !.estoque_mercos = cf.estoque[w]]
                                        ELSE cf.conc[w]]]
    /\ UNCHANGED <<salesVars, rq, nz, memo>>

\* one run of carregar_estoque_interno: the tables are read, never written
CarregarEstoqueInterno ==
    /\ cf' = [cf EXCEPT !.loaded = "interno",
                         !.interno_df = EstoqueInternoDf]
    /\ UNCHANGED <<salesVars, rq, nz, memo>>

\* frames gerar_relatorio_estoque of the two marketplaces returns: rows of
\* SKU, Nome, Estoque
MlRowA == [SKU |-> 1, Nome |-> 11, Estoque |-> 3]
MlRowB == [SKU |-> 2, Nome |-> 12, Estoque |-> 0]
AmazonRow == [SKU |-> 1, Nome |-> 21, Estoque |-> 4]
Raised == [raised |-> TRUE, rows |-> <<>>]
MlFeeds ==
    {NoFeed, Raised, [raised |-> FALSE, rows |-> <<MlRowA, MlRowB>>]}
AmazonFeeds ==
    {NoFeed, Raised, [raised |-> FALSE, rows |-> <<AmazonRow, AmazonRow>>]}

\* lines 178-180, 185-187: Nome renamed to Produto, Depósito set
Tagged(rows, deposito) ==
    [k \in DOMAIN rows |->
        [SKU |-> rows[k].SKU, Produto |-> rows[k].Nome,
         Deposito |-> deposito, Estoque |-> rows[k].Estoque]]

\* lines 176-182, 184-190: a source is appended to dados_externos when it
\* did not raise and its frame is not empty
Externo(data, deposito) ==
    IF ~data.raised /\ data.rows # <<>> THEN Tagged(data.rows, deposito) ELSE <<>>

\* a combination that leaves the warehouse rows out when no marketplace
\* source has rows
DfCompleto_ExternoOnly(ml_data, amazon_data, interno_df) ==
    LET externo_df == Externo(ml_data, "Mercado Livre (Full)")
                        \o Externo(amazon_data, "Amazon (FBA)")
    IN  IF externo_df = <<>> THEN <<>> ELSE externo_df \o interno_df

\* lines 196-199: the frame carregar_dados_completos returns
DfCompleto(ml_data, amazon_data, interno_df) ==
    LET externo_df == Externo(ml_data, "Mercado Livre (Full)")
                        \o Externo(amazon_data, "Amazon (FBA)")
    IN  externo_df \o interno_df

\* one run of carregar_dados_completos (lines 170-205)
CarregarDadosCompletos(ml_data, amazon_data) ==
    /\ cf' = [cf EXCEPT !.loaded = "completo",
                         !.ml_data = ml_data,
                         !.amazon_data = amazon_data,
                         !.interno_df = EstoqueInternoDf,
                         !.df_completo = DfCompleto(ml_data, amazon_data, EstoqueInternoDf)]
    /\ UNCHANGED <<salesVars, rq, nz, memo>>

NextView ==
    \/ CarregarEstoqueInterno
    \/ \E ml_data \in MlFeeds : \E amazon_data \in AmazonFeeds :
         CarregarDadosCompletos(ml_data, amazon_data)

(***************************************************************************)
(* The stock normalizers: AmazonAPI._parse_inventory_data,                 *)
(* MercosWebScraping.carrega_dados_mercos and                              *)
(* MercadoLivreAPI._create_dataframe.  A quantity of a payload is a pair   *)
(* of its type and its value: an integer, a string of digits, a float (in  *)
(* tenths), a text that is no number, null, or absent (no such key).  A    *)
(* product name is its length.                                             *)
(***************************************************************************)
\* no normalizer has been called
NzInit ==
    [fn |-> "none", raw_data |-> <<>>, df |-> <<>>,
     save_called |-> FALSE, saved |-> <<>>,
     failed |-> "none", item_ids |-> <<>>, flag_requests |-> <<>>,
     stock_requests |-> <<>>, processed |-> <<>>,
     previous |-> <<>>, table |-> <<>>, raised |-> FALSE]

Qty(t, v) == [t |-> t, v |-> v]
NaN == [nan |-> TRUE, tenths |-> 0]

\* pd.to_numeric(errors='coerce') of one value, in tenths
ToNumeric(q) ==
    IF q.t \in {"int", "numstr"} THEN [nan |-> FALSE, tenths |-> 10 * q.v]
    ELSE IF q.t = "float" THEN [nan |-> FALSE, tenths |-> q.v]
    ELSE NaN

\* a conversion that puts 0 in the place of a negative value
CoerceInt_Clamped(q) ==
    LET x == ToNumeric(q)
    IN  IF x.nan THEN 0
        ELSE IF x.tenths >= 0 THEN x.tenths \div 10
        ELSE 0

\* .fillna(0).astype(int): NaN becomes 0, a float is cut towards zero
CoerceInt(q) ==
    LET x == ToNumeric(q)
    IN  IF x.nan THEN 0
        ELSE IF x.tenths >= 0 THEN x.tenths \div 10
        ELSE 0 - ((0 - x.tenths) \div 10)

AmazonQtys ==
    {Qty("int", 0 - 3), Qty("int", 0), Qty("int", 5), Qty("numstr", 5),
     Qty("float", 27), Qty("float", 0 - 27), Qty("text", 0), Qty("null", 0),
     Qty("absent", 0)}

\* the inventorySummaries of a payload
AmazonPayloads ==
    {<<>>} \cup SeqsUpTo({[sellerSku |-> 1, productName |-> n, fulfillableQuantity |-> q] :
                            n \in {10, 80}, q \in AmazonQtys}, MaxRaw)

\* amazon.py lines 168-197: the frame _parse_inventory_data returns; the
\* selection of line 182 raises KeyError, and the frame is empty, when no
\* row has the quantity
ParseInventoryDataDf(raw_data) ==
    IF \A k \in DOMAIN raw_data : raw_data[k].fulfillableQuantity.t = "absent"
        THEN <<>>
        ELSE [k \in DOMAIN raw_data |->
                [SKU |-> raw_data[k].sellerSku,
                 Nome |-> Min(raw_data[k].productName, NameMax),
                 Estoque |-> CoerceInt(raw_data[k].fulfillableQuantity)]]

ParseInventoryData(raw_data) ==
    /\ nz.fn = "none"
    /\ nz' = [NzInit EXCEPT !.fn = "amazon", !.raw_data = raw_data,
                            !.df = ParseInventoryDataDf(raw_data)]
    /\ UNCHANGED <<salesVars, rq, cf, memo>>

\* the text of the stock cell (column 6) of a row of the product table
Cells ==
    {Qty("digits", 0), Qty("digits", 7), Qty("dotted", 1234), Qty("unit", 12),
     Qty("text", 0), Qty("negative", 5), Qty("empty", 0)}

\* mercos.py lines 149, 154: the first word of the cell without its dots,
\* as an int if it is all digits and None otherwise; an empty cell has no
\* first word and split()[0] raises IndexError
ParseEstoque(cell) ==
    IF cell.t = "empty" THEN [raises |-> TRUE, none |-> FALSE, v |-> 0]
    ELSE IF cell.t \in {"digits", "dotted", "unit"}
        THEN [raises |-> FALSE, none |-> FALSE, v |-> cell.v]
    ELSE [raises |-> FALSE, none |-> TRUE, v |-> 0]

\* the rows of the product table the scrape reads
ScrapedTables ==
    {<<>>} \cup SeqsUpTo({[SKU |-> w, cell |-> c] : w \in WhSkus, c \in Cells}, MaxRaw)

\* a filter that keeps the rows without a quantity, as rows of quantity 0
DfFiltradoMercos_KeepsNone(produtos) ==
    LET df == [k \in DOMAIN produtos |->
                 [SKU |-> produtos[k].SKU,
                  Estoque |-> IF produtos[k].Estoque.none THEN 0
                              ELSE produtos[k].Estoque.v]]
    IN  SelectSeq(df, LAMBDA r : r.Estoque >= 0)

\* mercos.py line 189: df[df['Estoque'] > 0]; None is NaN in the frame and
\* NaN > 0 is False
DfFiltradoMercos(produtos) ==
    LET kept == SelectSeq(produtos,
                          LAMBDA r : ~r.Estoque.none /\ r.Estoque.v > 0)
    IN  [k \in DOMAIN kept |-> [SKU |-> kept[k].SKU, Estoque |-> kept[k].Estoque.v]]

\* mercos.py lines 168-212: carrega_dados_mercos over the table the browser
\* shows when the login and the navigation succeed
CarregaDadosMercos(reached, tabela) ==
    LET produtos == [k \in DOMAIN tabela |->
                        [SKU |-> tabela[k].SKU, Estoque |-> ParseEstoque(tabela[k].cell)]]
        \* IndexError of line 149, caught at line 203
        raises == \E k \in DOMAIN tabela : produtos[k].Estoque.raises
    IN  /\ nz.fn = "none"
        /\ nz' = IF ~reached \/ raises \/ tabela = <<>>
                    THEN [NzInit EXCEPT !.fn = "mercos", !.raw_data = tabela]
                    ELSE [NzInit EXCEPT !.fn = "mercos", !.raw_data = tabela,
                                        !.df = DfFiltradoMercos(produtos),
                                        !.save_called = TRUE,
                                        !.saved = DfFiltradoMercos(produtos)]
        /\ UNCHANGED <<salesVars, rq, cf, memo>>

\* one call of salvar_estoque_mercos (database.py lines 63-86) on a table
\* that holds a previous snapshot
SalvarEstoqueMercosCall(table, df, fails) ==
    LET tx == SalvarEstoqueMercosTx(table, df, fails)
    IN  /\ nz.fn = "none"
        /\ nz' = [NzInit EXCEPT !.fn = "db_save", !.raw_data = df,
                                !.failed = fails, !.previous = table,
                                !.table = tx.table, !.raised = tx.raised]
        /\ UNCHANGED <<salesVars, rq, cf, memo>>

\* the rows _process_item_data collects for the active items
MlQtys == {Qty("int", 3), Qty("int", 5), Qty("null", 0)}
StockData ==
    {<<>>} \cup SeqsUpTo({[SKU |-> m, Nome |-> n, Estoque |-> q] :
                            m \in RefSkus, n \in {11, 12}, q \in MlQtys}, MaxRaw)

\* a dedupe by SKU that keeps the last row of each SKU
RECURSIVE DropDuplicates_BySkuKeepLast(_)
DropDuplicates_BySkuKeepLast(df) ==
    IF df = <<>> THEN <<>>
    ELSE LET rest == DropDuplicates_BySkuKeepLast(Tail(df))
         IN  IF \E k \in DOMAIN rest : rest[k].SKU = Head(df).SKU
                THEN rest
                ELSE <<Head(df)>> \o rest

\* DataFrame.drop_duplicates(): of the rows equal in every column the first
\* is kept
RECURSIVE DropDuplicates(_)
DropDuplicates(df) ==
    IF df = <<>> THEN <<>>
    ELSE LET front == DropDuplicates(SubSeq(df, 1, Len(df) - 1))
             last == df[Len(df)]
         IN  IF last \in Range(front) THEN front ELSE Append(front, last)

\* mercadolivre.py lines 244-260: the frame _create_dataframe returns; an
\* empty list has no columns and the selection of line 254 raises KeyError
CreateDataframeDf(raw_data) ==
    IF raw_data = <<>> THEN <<>>
    ELSE DropDuplicates([k \in DOMAIN raw_data |->
                            [SKU |-> raw_data[k].SKU,
                             Nome |-> raw_data[k].Nome,
                             Estoque |-> CoerceInt(raw_data[k].Estoque)]])

CreateDataframe(raw_data) ==
    /\ nz.fn = "none"
    /\ nz' = [NzInit EXCEPT !.fn = "ml", !.raw_data = raw_data,
                            !.df = CreateDataframeDf(raw_data)]
    /\ UNCHANGED <<salesVars, rq, cf, memo>>

\* an item as GET /items/{id} returns it: the value of its SELLER_SKU
\* attribute (0: it has none), its title, its available_quantity and its
\* variations, each with a SELLER_SKU (0: none) and an available_quantity
Variations ==
    {<<>>} \cup SeqsUpTo({[sku |-> v, available_quantity |-> q] :
                            v \in {0, 2}, q \in {Qty("int", 4), Qty("absent", 0)}}, MaxVar)
ItemData ==
    {[sku |-> m, title |-> n, available_quantity |-> q, variations |-> vs] :
        m \in {0, 1}, n \in {10, 80},
        q \in {Qty("int", 3), Qty("absent", 0)}, vs \in Variations}

\* item.get("available_quantity", 0)
AvailableQuantity(item) ==
    IF item.available_quantity.t = "absent" THEN Qty("int", 0)
    ELSE item.available_quantity

\* an expansion that takes the item's SKU for every row
ProcessItemDataRows_ItemSkuOnly(item_data) ==
    LET items_to_process ==
            IF item_data.variations # <<>> THEN item_data.variations
            ELSE <<[sku |-> item_data.sku,
                    available_quantity |-> item_data.available_quantity]>>
    IN  [k \in DOMAIN items_to_process |->
            [SKU |-> item_data.sku,
             Nome |-> Min(item_data.title, NameMax),
             Estoque |-> AvailableQuantity(items_to_process[k])]]

\* mercadolivre.py lines 190-214: the rows _process_item_data returns
ProcessItemDataRows(item_data) ==
    LET items_to_process ==
            IF item_data.variations # <<>> THEN item_data.variations
            ELSE <<[sku |-> item_data.sku,
                    available_quantity |-> item_data.available_quantity]>>
    IN  [k \in DOMAIN items_to_process |->
            [SKU |-> IF items_to_process[k].sku # 0 THEN items_to_process[k].sku
                     ELSE item_data.sku,
             Nome |-> Min(item_data.title, NameMax),
             Estoque |-> AvailableQuantity(items_to_process[k])]]

ProcessItemData(item_data) ==
    /\ nz.fn = "none"
    /\ nz' = [NzInit EXCEPT !.fn = "ml_item", !.raw_data = <<item_data>>,
                            !.processed = ProcessItemDataRows(item_data)]
    /\ UNCHANGED <<salesVars, rq, cf, memo>>

\* the seller's active listings as the search of line 168 returns them, in
\* upstream order; a listing's id is its position.  catalog_listing is
\* "true", "false" or "absent"
ListedItemA == [sku |-> 1, title |-> 10, available_quantity |-> Qty("int", 3),
                variations |-> <<>>]
ListedItemB == [sku |-> 1, title |-> 10, available_quantity |-> Qty("int", 3),
                variations |-> <<[sku |-> 2, available_quantity |-> Qty("int", 4)],
                                 [sku |-> 0, available_quantity |-> Qty("int", 4)]>>]
Listings ==
    {<<>>} \cup SeqsUpTo({[catalog_listing |-> c, item_data |-> d] :
                            c \in {"true", "false", "absent"},
                            d \in {ListedItemA, ListedItemB}}, MaxListings)

\* the request that raises MercadoLivreAPIError, if any: the search, the
\* first GET of line 179 or the first GET of line 232
Failures == {"none", "search", "flag", "stock"}

\* a filter that keeps the catalog listings too
NonCatalogIds_KeepsCatalog(results) ==
    [k \in DOMAIN results |-> k]

\* lines 177-181: the ids whose item has no true catalog_listing
NonCatalogIds(results) ==
    SelectSeq([k \in DOMAIN results |-> k],
              LAMBDA id : results[id].catalog_listing # "true")

\* lines 161-188: what _get_active_items returns; a failed request makes it
\* return the empty list
GetActiveItems(results, fail) ==
    IF fail = "search" \/ (fail = "flag" /\ results # <<>>)
        THEN <<>>
        ELSE NonCatalogIds(results)

RECURSIVE StockDataOf(_, _)
\* lines 230-236: stock_data, the rows of the items of item_ids
StockDataOf(results, item_ids) ==
    IF item_ids = <<>> THEN <<>>
    ELSE ProcessItemDataRows(results[Head(item_ids)].item_data)
            \o StockDataOf(results, Tail(item_ids))

\* lines 224-242: one run of gerar_relatorio_estoque on a new instance
GerarRelatorioEstoque(results, fail) ==
    LET item_ids == GetActiveItems(results, fail)
        flag_requests ==
            IF fail = "search" THEN <<>>
            ELSE IF fail = "flag" THEN SubSeq([k \in DOMAIN results |-> k], 1,
                                              Min(1, Len(results)))
            ELSE [k \in DOMAIN results |-> k]
        stock_fails == fail = "stock" /\ item_ids # <<>>
        failed == IF fail = "search" THEN "search"
                  ELSE IF fail = "flag" /\ results # <<>> THEN "flag"
                  ELSE IF stock_fails THEN "stock"
                  ELSE "none"
    IN  /\ nz.fn = "none"
        /\ nz' = [NzInit EXCEPT
                    !.fn = "ml_report",
                    !.raw_data = results,
                    !.failed = failed,
                    !.item_ids = item_ids,
                    !.flag_requests = flag_requests,
                    !.stock_requests =
                        IF stock_fails THEN SubSeq(item_ids, 1, 1) ELSE item_ids,
                    !.df = IF stock_fails THEN <<>>
                           ELSE CreateDataframeDf(StockDataOf(results, item_ids))]
        /\ UNCHANGED <<salesVars, rq, cf, memo>>

NextNorm ==
    \/ \E raw_data \in AmazonPayloads : ParseInventoryData(raw_data)
    \/ \E reached \in BOOLEAN : \E tabela \in ScrapedTables :
         CarregaDadosMercos(reached, tabela)
    \/ \E raw_data \in StockData : CreateDataframe(raw_data)
    \/ \E item_data \in ItemData : ProcessItemData(item_data)
    \/ \E results \in Listings : \E fail \in Failures :
         GerarRelatorioEstoque(results, fail)
    \/ \E table \in EstoqueTables : \E df \in EstoqueTables :
         \E fails \in SaveFailures : SalvarEstoqueMercosCall(table, df, fails)

(***************************************************************************)
(* The shipment lookups of several runs of get_all_shipment_details in one *)
(* process.  lru_cache keys an entry by the arguments of the call: the     *)
(* MercadoLivreAPI instance, the ClientSession and the shipment id; the    *)
(* entry is the coroutine the call returned.                               *)
(***************************************************************************)
MemoInit ==
    [run |-> 0, api |-> 0, cache |-> {},
     requests |-> [i \in ShipIds |-> 0],
     resolved |-> {}, raised |-> FALSE]

\* mercadolivre.py lines 289-304: one run of get_all_shipment_details over
\* the distinct ids, on the instance of the run before or on a new one
\* (app.py line 49), with the new ClientSession of line 300.  A call whose
\* key is in the cache gets the cached coroutine, which was awaited before:
\* awaiting it again raises RuntimeError and sends nothing.  Every other
\* call sends its request and leaves its coroutine in the cache.
GetAllShipmentDetails(new_api, shipping_ids, ok) ==
    LET api == IF new_api \/ memo.api = 0 THEN memo.run + 1 ELSE memo.api
        session == memo.run + 1
        Key(id) == [api |-> api, session |-> session, shipping_id |-> id]
        hits == {id \in shipping_ids : Key(id) \in memo.cache}
        misses == shipping_ids \ hits
    IN  /\ memo.run < MaxMemoRuns
        /\ shipping_ids # {}
        /\ DOMAIN ok = shipping_ids
        /\ memo' = [run |-> memo.run + 1,
                    api |-> api,
                    cache |-> memo.cache \cup {Key(id) : id \in misses},
                    requests |-> [i \in ShipIds |->
                                    IF i \in misses THEN memo.requests[i] + 1
                                    ELSE memo.requests[i]],
                    resolved |-> memo.resolved \cup {id \in misses : ok[id]},
                    raised |-> hits # {}]
        /\ UNCHANGED <<salesVars, rq, cf, nz>>

NextMemo ==
    \E new_api \in BOOLEAN : \E shipping_ids \in SUBSET ShipIds :
        \E ok \in [shipping_ids -> BOOLEAN] :
            GetAllShipmentDetails(new_api, shipping_ids, ok)

(***************************************************************************)
(* The inputs: batches of orders of five families, each varying what one   *)
(* part of get_sales_data reads.                                           *)
(***************************************************************************)
BaseStamp == [h |-> 24 * 1 + 3 - 4, off |-> 0 - 4]
SkuOf(price) == IF price = 100 THEN "SKU-A" ELSE "SKU-B"
BaseItem == MkItem("SKU-A", 2, 100, {})
BaseOrder(ship) == MkOrder(0, "paid", BaseStamp, <<BaseItem>>, 200, ship, {})

Items == {MkItem(SkuOf(p), q, p, {}) : q \in Qtys, p \in Prices}

\* one order, every combination the financial computation reads
FinBatches ==
    {<<MkOrder(0, st, BaseStamp, its, pa, sh, {})>> :
        st \in Statuses, its \in SeqsUpTo(Items, MaxItems), pa \in Amounts, sh \in ShipIds}

\* orders closed just before and just after the midnights of the civil days
DateBatches ==
    SeqsUpTo({MkOrder(0, "paid", ts, <<BaseItem>>, 200, 1, {}) : ts \in ClosedStamps},
             MaxOrders)

\* an order of MaxItems line items, complete or with one key absent
FullItems == [i \in 1..MaxItems |-> MkItem(IF i % 2 = 1 THEN "SKU-A" ELSE "SKU-B", i, 100, {})]
FullOrder == MkOrder(0, "paid", BaseStamp, FullItems, 200, 1, {})
DefectOrders ==
    {FullOrder}
    \cup {[FullOrder EXCEPT !.absent = {k}] : k \in OrderKeys}
    \cup {[FullOrder EXCEPT !.order_items[i].absent = {k}] : i \in 1..MaxItems, k \in ItemKeys}
DefectBatches == SeqsUpTo(DefectOrders, MaxOrders)

\* orders sharing or not sharing shipment ids, or without a shipment
ShipBatches ==
    SeqsUpTo({BaseOrder(sh) : sh \in ShipIds}
             \cup {[BaseOrder(1) EXCEPT !.absent = {"shipping"}]}, MaxOrders + 1)

\* long batches of plain orders, for the pagination
PageBatches == {[i \in 1..n |-> BaseOrder(1)] : n \in 0..MaxTotal}

\* two orders closed on the same civil day, one paid (100 x 2, shipment cost
\* 10) and one partially refunded (paid 150, shipment cost 5)
ScenarioBatch ==
    <<MkOrder(0, "paid", BaseStamp, <<MkItem("SKU-A", 2, 100, {})>>, 200, 2, {}),
      MkOrder(0, "partially_refunded", BaseStamp, <<MkItem("SKU-B", 1, 75, {})>>, 150, 1, {})>>

\* the i-th order the endpoint holds has id i
Numbered(b) == [i \in 1..Len(b) |-> [b[i] EXCEPT !.id = i]]

Ranges == {r \in Days \X Days : r[1] <= r[2]}

NoResult == [kind |-> "none", frame |-> <<>>, logged |-> "none"]

InitSales ==
    /\ \/ \E b \in DateBatches, r \in Ranges :
            /\ upstream = Numbered(b)
            /\ start_date = r[1]
            /\ end_date = r[2]
       \/ \E b \in FinBatches \cup DefectBatches \cup ShipBatches \cup PageBatches
                       \cup {ScenarioBatch} :
            /\ upstream = Numbered(b)
            /\ start_date = 1
            /\ end_date = MaxDay
    /\ pc = "paging"
    /\ offset = 0
    /\ requests = <<>>
    /\ all_orders = <<>>
    /\ unique_shipping_ids = <<>>
    /\ lookup = <<>>
    /\ reqCount = [i \in ShipIds |-> 0]
    /\ shipment_dict = <<>>
    /\ idx = 0
    /\ sales_data = <<>>
    /\ warnings = {}
    /\ qtd_total = 0
    /\ fat_total = 0
    /\ result = NoResult

\* the outer "except Exception" (lines 456-458): log the exception and return
\* an empty DataFrame
ReturnOnError(e) == [kind |-> "error", frame |-> <<>>, logged |-> e]

(***************************************************************************)
(* Pagination (lines 329-355)                                              *)
(***************************************************************************)
\* the page the order-search endpoint returns for an offset and a limit
PageAt(off, lim) == SubSeq(upstream, off + 1, Min(off + lim, Len(upstream)))

\* the loop left only on an empty page
FetchPage_StopsOnEmptyPage ==
    /\ pc = "paging"
    /\ LET results == PageAt(offset, Limit) IN
        /\ requests' = Append(requests, offset)
        /\ all_orders' = all_orders \o results
        /\ IF Len(results) = 0
              THEN pc' = "shipments" /\ offset' = offset
              ELSE pc' = "paging" /\ offset' = offset + Limit
    /\ UNCHANGED <<upstream, start_date, end_date, unique_shipping_ids, lookup,
                   reqCount, shipment_dict, idx, sales_data, warnings, qtd_total,
                   fat_total, result, rq, cf, nz, memo>>

\* a loop that stops when as many orders are accumulated as the endpoint holds
FetchPage_StopsOnTotal ==
    /\ pc = "paging"
    /\ LET results == PageAt(offset, Limit) IN
        /\ requests' = Append(requests, offset)
        /\ all_orders' = all_orders \o results
        /\ IF Len(all_orders') >= Len(upstream)
              THEN pc' = "shipments" /\ offset' = offset
              ELSE pc' = "paging" /\ offset' = offset + Limit
    /\ UNCHANGED <<upstream, start_date, end_date, unique_shipping_ids, lookup,
                   reqCount, shipment_dict, idx, sales_data, warnings, qtd_total,
                   fat_total, result, rq, cf, nz, memo>>

FetchPage ==
    /\ pc = "paging"
    /\ LET results == PageAt(offset, Limit) IN
        /\ requests' = Append(requests, offset)
        /\ all_orders' = all_orders \o results
        /\ IF Len(results) < Limit
              THEN pc' = "shipments" /\ offset' = offset
              ELSE pc' = "paging" /\ offset' = offset + Limit
    /\ UNCHANGED <<upstream, start_date, end_date, unique_shipping_ids, lookup,
                   reqCount, shipment_dict, idx, sales_data, warnings, qtd_total,
                   fat_total, result, rq, cf, nz, memo>>

\* _make_request raises MercadoLivreAPIError: the outer handler returns
FetchPageFail ==
    /\ pc = "paging"
    /\ requests' = Append(requests, offset)
    /\ pc' = "done"
    /\ result' = ReturnOnError("MercadoLivreAPIError")
    /\ UNCHANGED <<upstream, start_date, end_date, offset, all_orders,
                   unique_shipping_ids, lookup, reqCount, shipment_dict, idx,
                   sales_data, warnings, qtd_total, fat_total, rq, cf, nz, memo>>

(***************************************************************************)
(* Shipment cost resolution (lines 361-366, 289-304)                       *)
(***************************************************************************)
Has(o, k) == k \notin o.absent

\* all_shipping_ids (line 361): the ids of the orders that have a 'shipping' key
HasShipping(o) == Has(o, "shipping")
AllShippingIds(orders) ==
    LET with == SelectSeq(orders, HasShipping) IN
    [k \in 1..Len(with) |-> with[k].shipping_id]

\* all_shipping_ids used as it is, duplicates included
UniqueLists_NoDedup(ids) == {ids}

\* the lists list(set(ids)) may produce (line 362): the distinct ids in any order
UniqueLists(ids) == {q \in [1..Cardinality(Range(ids)) -> Range(ids)] : Range(q) = Range(ids)}

\* line 361 raises KeyError, outside the per-order try, when an order has a
\* 'shipping' object without an 'id'
ExtractShippingIds ==
    /\ pc = "shipments"
    /\ IF \E i \in 1..Len(all_orders) :
            Has(all_orders[i], "shipping") /\ ~Has(all_orders[i], "shipping.id")
          THEN /\ pc' = "done"
               /\ result' = ReturnOnError("KeyError")
               /\ UNCHANGED <<unique_shipping_ids, lookup>>
          ELSE /\ unique_shipping_ids' \in UniqueLists(AllShippingIds(all_orders))
               /\ lookup' = [k \in 1..Len(unique_shipping_ids') |-> "idle"]
               /\ pc' = "gather"
               /\ UNCHANGED result
    /\ UNCHANGED <<upstream, start_date, end_date, offset, requests, all_orders,
                   reqCount, shipment_dict, idx, sales_data, warnings,
                   qtd_total, fat_total, rq, cf, nz, memo>>

\* the k-th task (line 303) sends its GET /shipments/{id}
IssueLookup(k) ==
    /\ pc = "gather"
    /\ lookup[k] = "idle"
    /\ lookup' = [lookup EXCEPT ![k] = "sent"]
    /\ reqCount' = [reqCount EXCEPT ![unique_shipping_ids[k]] = @ + 1]
    /\ UNCHANGED <<upstream, start_date, end_date, pc, offset, requests, all_orders,
                   unique_shipping_ids, shipment_dict, idx, sales_data, warnings,
                   qtd_total, fat_total, result, rq, cf, nz, memo>>

\* the response arrives: the task returns (logistic_type, cost)
LookupSucceeds(k) ==
    /\ pc = "gather"
    /\ lookup[k] = "sent"
    /\ lookup' = [lookup EXCEPT ![k] = "ok"]
    /\ UNCHANGED <<upstream, start_date, end_date, pc, offset, requests, all_orders,
                   unique_shipping_ids, reqCount, shipment_dict, idx, sales_data,
                   warnings, qtd_total, fat_total, result, rq, cf, nz, memo>>

\* the request fails (HTTP error, connection error or timeout; on a 401 the
\* call of renew_token_async, which MLTokenManager does not define): the task
\* raises
LookupFails(k) ==
    /\ pc = "gather"
    /\ lookup[k] = "sent"
    /\ lookup' = [lookup EXCEPT ![k] = "failed"]
    /\ UNCHANGED <<upstream, start_date, end_date, pc, offset, requests, all_orders,
                   unique_shipping_ids, reqCount, shipment_dict, idx, sales_data,
                   warnings, qtd_total, fat_total, result, rq, cf, nz, memo>>

\* the answer is a 401 (lines 276-280): the handler awaits
\* token_manager.renew_token_async(), a method MLTokenManager (lines 35-89)
\* does not define; the AttributeError leaves the task, no renewal request is
\* sent and the GET is not repeated
LookupUnauthorized(k) ==
    /\ pc = "gather"
    /\ lookup[k] = "sent"
    /\ lookup' = [lookup EXCEPT ![k] = "unauthorized"]
    /\ UNCHANGED <<upstream, start_date, end_date, pc, offset, requests, all_orders,
                   unique_shipping_ids, reqCount, shipment_dict, idx, sales_data,
                   warnings, qtd_total, fat_total, result, rq, cf, nz, memo>>

\* a pairing of the ids with the results taken from the end of the list
ZipDict_Reversed(ids, details) ==
    [i \in Range(ids) |-> details[Len(ids) + 1 - (CHOOSE k \in 1..Len(ids) : ids[k] = i)]]

\* dict(zip(unique_shipping_ids, shipment_details)): gather returns the results
\* in the order of the tasks
ZipDict(ids, details) == [i \in Range(ids) |-> details[CHOOSE k \in 1..Len(ids) : ids[k] = i]]

\* a gather that returns with the first task that has returned
GatherReturns_FirstCompleted ==
    /\ pc = "gather"
    /\ \E k \in DOMAIN lookup : lookup[k] = "ok"
    /\ LET shipment_details == [k \in 1..Len(unique_shipping_ids) |->
                                    ShipmentDetails(unique_shipping_ids[k])] IN
         shipment_dict' = ZipDict(unique_shipping_ids, shipment_details)
    /\ pc' = "process"
    /\ UNCHANGED <<upstream, start_date, end_date, offset, requests, all_orders,
                   unique_shipping_ids, lookup, reqCount, idx, sales_data, warnings,
                   qtd_total, fat_total, result, rq, cf, nz, memo>>

\* asyncio.gather returns once every task has returned
GatherReturns ==
    /\ pc = "gather"
    /\ \A k \in DOMAIN lookup : lookup[k] = "ok"
    /\ LET shipment_details == [k \in 1..Len(unique_shipping_ids) |->
                                    ShipmentDetails(unique_shipping_ids[k])] IN
         shipment_dict' = ZipDict(unique_shipping_ids, shipment_details)
    /\ pc' = "process"
    /\ UNCHANGED <<upstream, start_date, end_date, offset, requests, all_orders,
                   unique_shipping_ids, lookup, reqCount, idx, sales_data, warnings,
                   qtd_total, fat_total, result, rq, cf, nz, memo>>

\* asyncio.gather (return_exceptions is not set) raises the first exception of
\* a task; asyncio.run cancels the tasks left and get_sales_data's outer
\* handler returns
GatherRaises ==
    /\ pc = "gather"
    /\ \E k \in DOMAIN lookup :
         /\ lookup[k] \in {"failed", "unauthorized"}
         /\ result' = ReturnOnError(IF lookup[k] = "failed" THEN "LookupError"
                                    ELSE "AttributeError")
    /\ pc' = "done"
    /\ UNCHANGED <<upstream, start_date, end_date, offset, requests, all_orders,
                   unique_shipping_ids, lookup, reqCount, shipment_dict, idx,
                   sales_data, warnings, qtd_total, fat_total, rq, cf, nz, memo>>

(***************************************************************************)
(* Per-order processing (lines 369-458)                                    *)
(***************************************************************************)
\* the date of the timestamp as sent, without the conversion to Sao Paulo time
CivilDate_NoConversion(ts) == ts.h \div 24

\* datetime.fromisoformat(order['date_closed']).astimezone(brt).date()
CivilDate(ts) == (ts.h - ts.off - BrtOffsetHours) \div 24

\* start_date_brt.date() <= date_created_brt.date() <= end_date_brt.date()
InDateRange(s, d, e) == s <= d /\ d <= e

\* shipment_dict.get(shipping_id, ("unknown", 0.0))
DictGet(dict, id) == IF id \in DOMAIN dict THEN dict[id] ELSE <<"unknown", 0>>

NoShipAmount_IgnoresRefund(status, paid_amount, unit_price, qty) == unit_price * qty

NoShipAmount_AlwaysPaid(status, paid_amount, unit_price, qty) == paid_amount

\* lines 407-419
NoShipAmount(status, paid_amount, unit_price, qty) ==
    IF status = "partially_refunded" THEN paid_amount ELSE unit_price * qty

\* the value of line 404 kept for every status
WithShipAmount_Line404(status, paid_amount, unit_price, qty, logistic_cost) ==
    paid_amount + logistic_cost

WithShipAmount(status, paid_amount, unit_price, qty, logistic_cost) ==
    IF status = "partially_refunded"
       THEN paid_amount + logistic_cost
       ELSE (unit_price * qty) + logistic_cost

\* the exception one pass of the line-item loop raises, if any, in the order
\* the statements of lines 379-404 run
ItemException(o, it) ==
    IF ~Has(it, "seller_sku") THEN "KeyError"
    ELSE IF ~Has(it, "quantity") THEN "KeyError"
    ELSE IF ~Has(it, "unit_price") THEN "KeyError"
    ELSE IF ~Has(o, "payments") THEN "TypeError"       \* None[0]
    ELSE IF ~Has(o, "shipping") THEN "KeyError"
    ELSE IF ~Has(o, "status") THEN "KeyError"
    ELSE IF ~Has(o, "paid_amount") THEN "TypeError"    \* None + logistic_cost
    ELSE "none"

\* the record sales_data.append receives (lines 421-435)
SalesRecord(o, it, dict) ==
    LET logistic == DictGet(dict, o.shipping_id) IN
    [order_id |-> o.id,
     order_status |-> o.status,
     date |-> CivilDate(o.date_closed),
     sku |-> it.seller_sku,
     qty |-> it.quantity,
     unit_price |-> it.unit_price,
     paid_amount |-> o.paid_amount,
     paid_amount_calculated_no_ship_cost |->
         NoShipAmount(o.status, o.paid_amount, it.unit_price, it.quantity),
     paid_amount_calculated |->
         WithShipAmount(o.status, o.paid_amount, it.unit_price, it.quantity, logistic[2]),
     logistic_cost |-> logistic[2],
     logistic_type |-> logistic[1]]

\* the loop over order['order_items']: the records appended until it ends or
\* a statement raises
RECURSIVE ProcessItems(_, _, _)
ProcessItems(o, items, dict) ==
    IF items = <<>> THEN [recs |-> <<>>, exc |-> "none"]
    ELSE IF ItemException(o, Head(items)) # "none"
            THEN [recs |-> <<>>, exc |-> ItemException(o, Head(items))]
            ELSE LET rest == ProcessItems(o, Tail(items), dict) IN
                 [recs |-> <<SalesRecord(o, Head(items), dict)>> \o rest.recs,
                  exc |-> rest.exc]

\* one pass of "for order in all_orders": records appended, exception raised,
\* warning logged
OrderOutcome(o, dict, s, e) ==
    IF ~Has(o, "date_closed") THEN [recs |-> <<>>, exc |-> "KeyError", warn |-> TRUE]
    ELSE IF ~InDateRange(s, CivilDate(o.date_closed), e)
            THEN [recs |-> <<>>, exc |-> "none", warn |-> TRUE]
    ELSE IF ~Has(o, "order_items") THEN [recs |-> <<>>, exc |-> "KeyError", warn |-> TRUE]
    ELSE LET r == ProcessItems(o, o.order_items, dict) IN
         [recs |-> r.recs, exc |-> r.exc, warn |-> r.exc = "KeyError"]

NoShipOf(recs) == [i \in 1..Len(recs) |-> recs[i].paid_amount_calculated_no_ship_cost]
QtyOf(recs) == [i \in 1..Len(recs) |-> recs[i].qty]

\* a KeyError is caught per order (line 446); any other exception reaches the
\* outer handler (line 456), which returns an empty DataFrame
ProcessOrder ==
    /\ pc = "process"
    /\ idx < Len(all_orders)
    /\ LET o == all_orders[idx + 1]
           out == OrderOutcome(o, shipment_dict, start_date, end_date) IN
        /\ sales_data' = sales_data \o out.recs
        /\ qtd_total' = qtd_total + SeqSum(QtyOf(out.recs))
        /\ fat_total' = fat_total + SeqSum(NoShipOf(out.recs))
        /\ warnings' = IF out.warn THEN warnings \cup {o.id} ELSE warnings
        /\ IF out.exc \in {"none", "KeyError"}
              THEN idx' = idx + 1 /\ pc' = "process" /\ UNCHANGED result
              ELSE idx' = idx /\ pc' = "done" /\ result' = ReturnOnError(out.exc)
    /\ UNCHANGED <<upstream, start_date, end_date, offset, requests, all_orders,
                   unique_shipping_ids, lookup, reqCount, shipment_dict, rq, cf, nz, memo>>

\* return pd.DataFrame(sales_data)
ReturnFrame ==
    /\ pc = "process"
    /\ idx = Len(all_orders)
    /\ pc' = "done"
    /\ result' = [kind |-> "frame", frame |-> sales_data, logged |-> "none"]
    /\ UNCHANGED <<upstream, start_date, end_date, offset, requests, all_orders,
                   unique_shipping_ids, lookup, reqCount, shipment_dict, idx,
                   sales_data, warnings, qtd_total, fat_total, rq, cf, nz, memo>>

NextSales ==
    \/ FetchPage
    \/ FetchPageFail
    \/ ExtractShippingIds
    \/ \E k \in DOMAIN lookup : IssueLookup(k)
    \/ \E k \in DOMAIN lookup : LookupSucceeds(k)
    \/ \E k \in DOMAIN lookup : LookupFails(k)
    \/ \E k \in DOMAIN lookup : LookupUnauthorized(k)
    \/ GatherReturns
    \/ GatherRaises
    \/ ProcessOrder
    \/ ReturnFrame

\* get_sales_data alone: no request and no form in progress
Init ==
    /\ InitSales
    /\ rq = RqInit
    /\ cf = CfInit
    /\ nz = NzInit
    /\ memo = MemoInit

Spec == Init /\ [][NextSales]_vars

(***************************************************************************)
(* Properties of get_sales_data                                            *)
(***************************************************************************)
\* the records appended so far and the records returned
AllRecs == Range(sales_data) \cup Range(result.frame)
PartiallyRefunded(r) == upstream[r.order_id].status = "partially_refunded"

\* C1: every sales record of a partially_refunded order has
\* paid_amount_calculated_no_ship_cost equal to the order's paid_amount,
\* whatever the unit price and the quantity of the line item.
C1_RefundUsesPaidAmount ==
    \A r \in AllRecs :
        PartiallyRefunded(r) =>
            r.paid_amount_calculated_no_ship_cost = upstream[r.order_id].paid_amount

C1_Witness ==
    /\ result.kind = "frame"
    /\ \E r \in Range(result.frame) :
        /\ PartiallyRefunded(r)
        /\ r.unit_price * r.qty # upstream[r.order_id].paid_amount
        /\ r.paid_amount_calculated_no_ship_cost = upstream[r.order_id].paid_amount

\* C2: every sales record of an order with any other status has
\* paid_amount_calculated_no_ship_cost equal to unit_price x quantity of its
\* line item; the order's paid_amount is not used.
C2_OtherStatusUsesLineTotal ==
    \A r \in AllRecs :
        ~PartiallyRefunded(r) =>
            \E i \in DOMAIN upstream[r.order_id].order_items :
                LET it == upstream[r.order_id].order_items[i] IN
                /\ it.seller_sku = r.sku
                /\ it.quantity = r.qty
                /\ it.unit_price = r.unit_price
                /\ r.paid_amount_calculated_no_ship_cost = it.unit_price * it.quantity

C2_Witness ==
    /\ result.kind = "frame"
    /\ \E r \in Range(result.frame) :
        /\ ~PartiallyRefunded(r)
        /\ upstream[r.order_id].paid_amount # r.unit_price * r.qty
        /\ r.paid_amount_calculated_no_ship_cost = r.unit_price * r.qty

\* C3: every sales record has paid_amount_calculated equal to
\* paid_amount_calculated_no_ship_cost plus the logistic cost of the order's
\* shipment id: paid_amount + cost for a partially_refunded order and
\* unit_price x quantity + cost otherwise.
C3_WithShipAddsCost ==
    \A r \in AllRecs :
        LET o == upstream[r.order_id]
            cost == ShipmentCost(o.shipping_id) IN
        /\ r.logistic_cost = cost
        /\ r.paid_amount_calculated = r.paid_amount_calculated_no_ship_cost + cost
        /\ r.paid_amount_calculated =
              IF PartiallyRefunded(r) THEN o.paid_amount + cost
                                      ELSE r.unit_price * r.qty + cost

\* the scenario of the specification: 200 -> 210 with cost 10, 150 -> 155 with cost 5
C3_Witness ==
    /\ result.kind = "frame"
    /\ Len(result.frame) = 2
    /\ result.frame[1].paid_amount_calculated_no_ship_cost = 200
    /\ result.frame[1].logistic_cost = 10
    /\ result.frame[1].paid_amount_calculated = 210
    /\ result.frame[2].order_status = "partially_refunded"
    /\ result.frame[2].paid_amount_calculated_no_ship_cost = 150
    /\ result.frame[2].logistic_cost = 5
    /\ result.frame[2].paid_amount_calculated = 155

\* C4: when the lookup of some of the N distinct shipment ids fails, the
\* resolver still yields N entries, the failed ids mapped to ("unknown", 0),
\* and the batch of orders is not aborted.
C4_FailedLookupFallsBack ==
    (pc = "done" /\ \E k \in DOMAIN lookup : lookup[k] = "failed") =>
        /\ result.kind = "frame"
        /\ DOMAIN shipment_dict = Range(unique_shipping_ids)
        /\ \A k \in DOMAIN lookup :
              shipment_dict[unique_shipping_ids[k]] =
                  IF lookup[k] = "failed" THEN <<"unknown", 0>>
                  ELSE ShipmentDetails(unique_shipping_ids[k])

RECURSIVE PagesConcat(_)
PagesConcat(n) ==
    IF n = 0 THEN <<>> ELSE PagesConcat(n - 1) \o PageAt((n - 1) * Limit, Limit)

PagingOver == pc \in {"shipments", "gather", "process"}

\* C5: the order pages are requested at offsets 0, 50, 100, ... with limit 50,
\* the loop stops right after the first page of fewer than 50 results, and
\* all_orders is the concatenation of the fetched pages in order; 137 orders
\* take exactly 3 requests.
C5_Pagination ==
    /\ \A k \in 1..Len(requests) : requests[k] = (k - 1) * Limit
    /\ pc = "paging" =>
          /\ \A k \in 1..Len(requests) : Len(PageAt(requests[k], Limit)) = Limit
          /\ all_orders = PagesConcat(Len(requests))
    /\ PagingOver =>
          /\ Len(requests) >= 1
          /\ \A k \in 1..(Len(requests) - 1) : Len(PageAt(requests[k], Limit)) = Limit
          /\ Len(PageAt(requests[Len(requests)], Limit)) < Limit
          /\ all_orders = PagesConcat(Len(requests))
    /\ (PagingOver /\ Len(upstream) = 137) =>
          Len(requests) = 3 /\ Len(all_orders) = 137

C5_Witness ==
    /\ pc = "shipments"
    /\ Len(upstream) = 137
    /\ requests = <<0, 50, 100>>
    /\ Len(all_orders) = 137

\* the civil day, in America/Sao_Paulo, of an instant: the day d with
\* 24 d <= hours since the epoch at UTC-3 < 24 (d + 1)
CivilDayOf(ts) ==
    CHOOSE d \in 0..(MaxDay + 2) :
        24 * d + 3 <= ts.h - ts.off /\ ts.h - ts.off < 24 * (d + 1) + 3

\* C6: every sales record belongs to an order whose closing instant falls, in
\* Sao Paulo time, on a civil day d with start <= d <= end; an order closed
\* outside the range contributes no record.
C6_OnlyOrdersInRange ==
    \A r \in AllRecs :
        LET d == CivilDayOf(upstream[r.order_id].date_closed) IN
        start_date <= d /\ d <= end_date /\ r.date = d

C6_Witness ==
    /\ result.kind = "frame"
    /\ Len(result.frame) >= 1
    /\ \E i \in 1..Len(all_orders) :
        /\ CivilDayOf(all_orders[i].date_closed) \notin start_date..end_date
        /\ \A r \in Range(result.frame) : r.order_id # i

Malformed(o) ==
    \/ o.absent # {}
    \/ \E i \in DOMAIN o.order_items : o.order_items[i].absent # {}

RecordsOf(frame, id) == Cardinality({k \in 1..Len(frame) : frame[k].order_id = id})

\* C7: an order with a required field absent yields no sales record and never
\* aborts the batch: every other qualifying order still yields all its
\* records.
C7_MalformedOrderSkipped ==
    pc = "done" =>
        /\ result.kind = "error" => result.logged \notin {"KeyError", "TypeError"}
        /\ result.kind = "frame" =>
              \A i \in 1..Len(all_orders) :
                  RecordsOf(result.frame, i) =
                      IF Malformed(all_orders[i]) THEN 0
                      ELSE IF CivilDayOf(all_orders[i].date_closed)
                                \notin start_date..end_date THEN 0
                      ELSE Len(all_orders[i].order_items)

\* C8: the shipment endpoint is requested exactly once for each distinct
\* shipment id of the accumulated orders, however many orders share the id.
C8_OneRequestPerDistinctId ==
    /\ \A i \in ShipIds : reqCount[i] <= 1
    /\ \A i \in ShipIds :
          reqCount[i] = 1 =>
              \E k \in 1..Len(all_orders) :
                  Has(all_orders[k], "shipping") /\ all_orders[k].shipping_id = i
    /\ (pc = "process" \/ result.kind = "frame") =>
          \A k \in 1..Len(all_orders) :
              Has(all_orders[k], "shipping") => reqCount[all_orders[k].shipping_id] = 1

C8_Witness ==
    /\ result.kind = "frame"
    /\ \E j, k \in 1..Len(all_orders) :
        /\ j # k
        /\ Has(all_orders[j], "shipping") /\ Has(all_orders[k], "shipping")
        /\ all_orders[j].shipping_id = all_orders[k].shipping_id
        /\ reqCount[all_orders[j].shipping_id] = 1

\* no run of get_sales_data in progress
SalesIdle ==
    /\ upstream = <<>>
    /\ start_date = 1
    /\ end_date = 1
    /\ pc = "idle"
    /\ offset = 0
    /\ requests = <<>>
    /\ all_orders = <<>>
    /\ unique_shipping_ids = <<>>
    /\ lookup = <<>>
    /\ reqCount = [i \in ShipIds |-> 0]
    /\ shipment_dict = <<>>
    /\ idx = 0
    /\ sales_data = <<>>
    /\ warnings = {}
    /\ qtd_total = 0
    /\ fat_total = 0
    /\ result = NoResult

InitReq ==
    /\ SalesIdle
    /\ rq = RqInit
    /\ cf = CfInit
    /\ nz = NzInit
    /\ memo = MemoInit

SpecReq == InitReq /\ [][NextReq]_vars

\* C9: on an authorization failure the client renews the credential once and
\* retries the request once; a second authorization failure surfaces.  Within
\* one request there is at most 1 renewal and there are at most 2 attempts.
C9_OneRenewalOneRetry ==
    /\ rq.renewals <= 1
    /\ rq.attempts <= 2

InitConc ==
    /\ SalesIdle
    /\ rq = RqInit
    /\ cf = CfInit
    /\ nz = NzInit
    /\ memo = MemoInit

SpecConc == InitConc /\ [][NextConc]_vars

\* C10: after any save of the conciliation form no non-empty marketplace SKU
\* is mapped to more than one warehouse SKU.
C10_MarketplaceSkuMappedOnce ==
    \A v, w \in WhSkus :
        (v # w /\ cf.conc[v].sku_ml_amazon # 0) =>
            cf.conc[v].sku_ml_amazon # cf.conc[w].sku_ml_amazon

\* the row a submitted entry leaves in conciliacao_mercos (lines 700-703)
PersistedRow(c) ==
    IF c.sku_ml_amazon # 0
        THEN [sku_ml_amazon |-> c.sku_ml_amazon, estoque_mercos |-> c.estoque_mercos]
        ELSE NoRow

\* C11 as stated: after a save the table holds exactly the submitted rows
\* that have a marketplace SKU, and no row from before the save
C11_SaveIsFullReplace ==
    cf.submitted =>
        \A w \in WhSkus :
            cf.conc[w] = IF cf.conciliacoes[w].in_form
                            THEN PersistedRow(cf.conciliacoes[w])
                            ELSE NoRow

\* C11 amended: a save replaces the mappings of the warehouse SKUs shown in
\* the form by the submitted rows that have a marketplace SKU, and leaves
\* the mapping of every warehouse SKU that is not in the form (filtered out,
\* or no longer in the warehouse stock) as it was
C11_SaveReplacesFormRows ==
    [][cf'.submitted =>
        \A w \in WhSkus :
            IF cf'.conciliacoes[w].in_form
                THEN cf'.conc[w] = PersistedRow(cf'.conciliacoes[w])
                ELSE cf'.conc[w] = cf.conc[w]]_vars

\* a save has replaced one mapping and kept the mapping of a warehouse SKU
\* that was not in the form
C11_Witness ==
    /\ cf.submitted
    /\ \E w \in WhSkus :
            /\ ~cf.conciliacoes[w].in_form
            /\ cf.conc[w] # NoRow
    /\ \E v \in WhSkus :
            /\ cf.conciliacoes[v].in_form
            /\ cf.conciliacoes[v].sku_ml_amazon # 0
            /\ cf.conc[v] = PersistedRow(cf.conciliacoes[v])

(***************************************************************************)
(* The stock view over every pair of tables that scrapes and saves leave   *)
(* (SpecConc reaches each of them).                                        *)
(***************************************************************************)
MappingRows ==
    {NoRow} \cup {[sku_ml_amazon |-> m, estoque_mercos |-> q] :
                    m \in RefSkus, q \in Quantidades}

InitView ==
    /\ SalesIdle
    /\ rq = RqInit
    /\ cf \in {[CfInit EXCEPT !.estoque = e, !.conc = c] :
                    e \in [WhSkus -> {0} \cup Quantidades],
                    c \in [WhSkus -> MappingRows]}
    /\ nz = NzInit
    /\ memo = MemoInit

SpecView == InitView /\ [][NextView]_vars

\* C12: in the frame carregar_estoque_interno returns, the row of each
\* reconciled mapping whose warehouse SKU is in the live stock carries the
\* live quantity, whether or not it differs from the cached one
C12_LiveQuantityOverridesCached ==
    (cf.loaded = "interno" /\ DfMercos # <<>>) =>
        /\ Len(cf.interno_df) = Len(DfFiltrado)
        /\ \A k \in DOMAIN DfFiltrado :
                LET w == DfFiltrado[k].sku_mercos
                IN  cf.estoque[w] # 0 =>
                        /\ cf.interno_df[k].SKU = cf.conc[w].sku_ml_amazon
                        /\ cf.interno_df[k].Estoque = cf.estoque[w]

\* a mapping cached at 10 whose warehouse SKU is live at 7 is reported at 7
C12_Witness ==
    /\ cf.loaded = "interno"
    /\ \E k \in DOMAIN DfFiltrado :
            LET w == DfFiltrado[k].sku_mercos
            IN  /\ cf.conc[w].estoque_mercos = 10
                /\ cf.estoque[w] = 7
                /\ cf.interno_df[k].Estoque = 7

\* C13: no row of conciliacao_mercos has an empty marketplace SKU, a save
\* persists none, and no row of the frame carregar_estoque_interno returns
\* from the tables has one
C13_NoEmptyMarketplaceSku ==
    /\ \A w \in WhSkus : cf.conc[w] # NoRow => cf.conc[w].sku_ml_amazon # 0
    /\ \A k \in DOMAIN EstoqueInternoDf : EstoqueInternoDf[k].SKU # 0

\* a form was saved with one row left empty and one row selected: the empty
\* row is not in the table and the view has a row
C13_Witness ==
    /\ cf.submitted
    /\ \E w \in WhSkus :
            /\ cf.conciliacoes[w].in_form
            /\ cf.conciliacoes[w].sku_ml_amazon = 0
            /\ cf.conc[w] = NoRow
    /\ EstoqueInternoDf # <<>>

\* the rows a marketplace source contributes: its frame's rows under the
\* source's Depósito, none when it raised
SourceRows(data, deposito) ==
    IF data.raised THEN <<>> ELSE Tagged(data.rows, deposito)

\* C14: the frame carregar_dados_completos returns has each row of the
\* Mercado Livre frame, of the Amazon frame and of the reconciled warehouse
\* frame as often as the sources have it and no other row, and each row has
\* the fields SKU, Produto, Depósito, Estoque only
C14_UnifiedIsUnionOfSources ==
    cf.loaded = "completo" =>
        LET ml == SourceRows(cf.ml_data, "Mercado Livre (Full)")
            amazon == SourceRows(cf.amazon_data, "Amazon (FBA)")
        IN  /\ \A r \in Range(cf.df_completo) \cup Range(ml) \cup Range(amazon)
                        \cup Range(cf.interno_df) :
                    Occ(r, cf.df_completo)
                        = Occ(r, ml) + Occ(r, amazon) + Occ(r, cf.interno_df)
            /\ \A r \in Range(cf.df_completo) :
                    DOMAIN r = {"SKU", "Produto", "Deposito", "Estoque"}
            /\ cf.interno_df = EstoqueInternoDf

\* the Mercado Livre source raised, the Amazon frame and the reconciled
\* warehouse frame have rows
C14_Witness ==
    /\ cf.loaded = "completo"
    /\ cf.ml_data.raised
    /\ cf.amazon_data.rows # <<>>
    /\ cf.interno_df # <<>>
    /\ Len(cf.df_completo) = Len(cf.amazon_data.rows) + Len(cf.interno_df)

InitNorm ==
    /\ SalesIdle
    /\ rq = RqInit
    /\ cf = CfInit
    /\ nz = NzInit
    /\ memo = MemoInit

SpecNorm == InitNorm /\ [][NextNorm]_vars

\* C16: every row of the frame of the fulfillment normalizer has a natural
\* number as quantity, and 0 where the payload's quantity is no number or
\* is missing
C16_QuantityNonNegative ==
    nz.fn = "amazon" =>
        \A k \in DOMAIN nz.df :
            /\ nz.df[k].Estoque \in Nat
            /\ nz.raw_data[k].fulfillableQuantity.t \in {"text", "null", "absent"}
                    => nz.df[k].Estoque = 0

\* C17: every row carrega_dados_mercos returns, and every row it passes to
\* salvar_estoque_mercos, has a quantity above 0
C17_OnlyPositiveWarehouseRows ==
    nz.fn = "mercos" =>
        /\ \A k \in DOMAIN nz.df : nz.df[k].Estoque > 0
        /\ \A k \in DOMAIN nz.saved : nz.saved[k].Estoque > 0
        /\ nz.save_called => nz.saved = nz.df

\* a scrape with a row of quantity 0, a row whose quantity is no number and
\* a row kept: one row is returned and saved
C17_Witness ==
    /\ nz.fn = "mercos"
    /\ nz.save_called
    /\ Len(nz.saved) >= 1
    /\ Len(nz.saved) < Len(nz.raw_data)
    /\ \E k \in DOMAIN nz.raw_data :
            nz.raw_data[k].cell \in {Qty("digits", 0), Qty("text", 0), Qty("negative", 5)}

\* C18: the frame of the marketplace normalizer has one row per SKU of the
\* payload, the last row of the payload with that SKU
C18_OneRowPerSkuLastSeen ==
    nz.fn = "ml" =>
        /\ \A j, k \in DOMAIN nz.df : nz.df[j].SKU = nz.df[k].SKU => j = k
        /\ \A k \in DOMAIN nz.raw_data :
                (\A j \in DOMAIN nz.raw_data :
                    j > k => nz.raw_data[j].SKU # nz.raw_data[k].SKU)
                => [SKU |-> nz.raw_data[k].SKU, Nome |-> nz.raw_data[k].Nome,
                    Estoque |-> CoerceInt(nz.raw_data[k].Estoque)] \in Range(nz.df)

(***************************************************************************)
(* What the callers of get_sales_data receive.                             *)
(***************************************************************************)
\* mercadolivre.py lines 587-595: generate_salesdash over the frame
\* get_sales_data returned
GenerateSalesdash(df) ==
    IF df = <<>>
        THEN [kind |-> "message", rows |-> <<>>]
        ELSE [kind |-> "frame",
              rows |-> SelectSeq(df, LAMBDA r : r.order_status # "cancelled")]

\* C19: when get_sales_data ended on a failure, neither the frame it returns
\* nor what generate_salesdash makes of it is what the caller receives for a
\* period without sales
C19_FailureIsDistinguishable ==
    (pc = "done" /\ result.kind = "error") =>
        /\ result.frame # <<>>
        /\ GenerateSalesdash(result.frame) # GenerateSalesdash(<<>>)

(***************************************************************************)
(* Several runs of the shipment resolver in one process.                   *)
(***************************************************************************)
InitMemo ==
    /\ SalesIdle
    /\ rq = RqInit
    /\ cf = CfInit
    /\ nz = NzInit
    /\ memo = MemoInit

SpecMemo == InitMemo /\ [][NextMemo]_vars

\* C20: a run of the resolver sends no request for a shipment id that an
\* earlier run of the process resolved, and does not raise
C20_ResolvedIdNotRequestedAgain ==
    [][/\ \A id \in memo.resolved : memo'.requests[id] = memo.requests[id]
       /\ ~memo'.raised]_vars

(***************************************************************************)
(* The listings of the marketplace stock report.                           *)
(***************************************************************************)
\* C21: when the search and the requests of the catalog flags succeed,
\* _get_active_items returns the ids of the active listings whose
\* catalog_listing is not true, in upstream order, and gerar_relatorio_estoque
\* requests the stock detail of ids of that list only
C21_ActiveItemsAreNonCatalog ==
    nz.fn = "ml_report" =>
        /\ nz.failed \notin {"search", "flag"} =>
                /\ \A k \in DOMAIN nz.raw_data :
                        (k \in Range(nz.item_ids))
                            <=> (nz.raw_data[k].catalog_listing # "true")
                /\ \A i, j \in DOMAIN nz.item_ids :
                        i < j => nz.item_ids[i] < nz.item_ids[j]
        /\ Range(nz.stock_requests) \subseteq Range(nz.item_ids)
        /\ nz.failed = "none" => nz.stock_requests = nz.item_ids

\* a catalog listing between two listings of the seller's own: the first and
\* the third are returned and their stock detail is requested
C21_Witness ==
    /\ nz.fn = "ml_report"
    /\ nz.failed = "none"
    /\ \E k \in DOMAIN nz.raw_data :
            /\ nz.raw_data[k].catalog_listing = "true"
            /\ k \notin Range(nz.item_ids)
    /\ \E k \in DOMAIN nz.raw_data :
            /\ nz.raw_data[k].catalog_listing # "true"
            /\ k \in Range(nz.stock_requests)

\* C22: _process_item_data returns one row per variation of an item that has
\* variations and one row for an item that has none; a row's SKU is the
\* variation's SELLER_SKU if it has one and the item's otherwise, and its
\* quantity is the available_quantity of the variation (or of the item)
C22_OneRowPerVariation ==
    nz.fn = "ml_item" =>
        LET item_data == nz.raw_data[1]
            v == Len(item_data.variations)
        IN  /\ v >= 1 =>
                  /\ Len(nz.processed) = v
                  /\ \A k \in 1..v :
                        /\ nz.processed[k].SKU =
                              IF item_data.variations[k].sku # 0
                                  THEN item_data.variations[k].sku
                                  ELSE item_data.sku
                        /\ nz.processed[k].Estoque =
                              AvailableQuantity(item_data.variations[k])
            /\ v = 0 =>
                  /\ Len(nz.processed) = 1
                  /\ nz.processed[1].SKU = item_data.sku
                  /\ nz.processed[1].Estoque = AvailableQuantity(item_data)

\* an item of two variations, one with its own SKU and one without
C22_Witness ==
    /\ nz.fn = "ml_item"
    /\ Len(nz.raw_data[1].variations) = 2
    /\ nz.raw_data[1].sku = 1
    /\ nz.raw_data[1].variations[1].sku = 2
    /\ nz.raw_data[1].variations[2].sku = 0
    /\ nz.processed[1].SKU = 2
    /\ nz.processed[2].SKU = 1

(***************************************************************************)
(* The phases of get_sales_data.                                           *)
(***************************************************************************)
\* the loop over all_orders has been entered
ProcessingStarted ==
    \/ pc = "process"
    \/ idx > 0
    \/ sales_data # <<>>
    \/ result.kind = "frame"
    \/ result.logged = "TypeError"

\* the list of shipment ids has been built
ShipmentsExtracted ==
    \/ pc \in {"gather", "process"}
    \/ lookup # <<>>
    \/ ProcessingStarted

\* C23: in every run of get_sales_data the pages are all fetched before a
\* shipment id is extracted (while paging, no id list, no lookup and no record
\* exists; once the ids are extracted all_orders holds every order of the
\* endpoint), and the lookup of every distinct id has finished before the first
\* order is processed; from then on every distinct id has been requested
\* exactly once, so that no shipment request follows the start of processing
C23_PhaseOrdering ==
    /\ pc = "paging" =>
            /\ unique_shipping_ids = <<>>
            /\ lookup = <<>>
            /\ \A i \in ShipIds : reqCount[i] = 0
            /\ ~ProcessingStarted
    /\ ShipmentsExtracted =>
            /\ all_orders = upstream
            /\ Range(unique_shipping_ids) = Range(AllShippingIds(all_orders))
    /\ pc \in {"shipments", "gather"} => ~ProcessingStarted
    /\ ProcessingStarted =>
            /\ \A k \in DOMAIN lookup : lookup[k] = "ok"
            /\ DOMAIN lookup = 1..Len(unique_shipping_ids)
            /\ \A i \in ShipIds :
                    reqCount[i] = IF i \in Range(unique_shipping_ids) THEN 1 ELSE 0

\* two orders of two shipments: both lookups have finished and the first
\* order has been processed
C23_Witness ==
    /\ pc = "process"
    /\ idx >= 1
    /\ sales_data # <<>>
    /\ Len(unique_shipping_ids) = 2
    /\ \A k \in DOMAIN lookup : lookup[k] = "ok"

(***************************************************************************)
(* Authorization failures of concurrent lookups.                           *)
(***************************************************************************)
\* C24: a lookup that receives an authorization failure does not end there:
\* the credential is renewed (by it, or by the lookup whose renewal it awaits)
\* and the lookup repeats its request with the renewed token, so that no task
\* of the fan-out ends on the 401 it received
C24_UnauthorizedLookupRetries ==
    \A k \in DOMAIN lookup : lookup[k] # "unauthorized"

(***************************************************************************)
(* A marketplace SKU in more than one mapping row.                         *)
(***************************************************************************)
\* the rows of df_filtrado that carry the marketplace SKU m
RowsOfSku(m) == {k \in DOMAIN DfFiltrado : DfFiltrado[k].SKU = m}

\* the overrides the loops of lines 143-148 apply to rows of the marketplace
\* SKU m, in iteration order: one per row of df_mercos whose mapping row
\* carries m and a cached quantity other than the live one
OverridesOfSku(m) ==
    SelectSeq(DfMercos,
              LAMBDA r : \E k \in RowsOfSku(m) :
                            /\ DfFiltrado[k].sku_mercos = r.SKU
                            /\ DfFiltrado[k].Estoque # r.Estoque)

C26_SaveIsAtomicFullReplace ==
    nz.fn = "db_save" =>
        /\ nz.failed = "none" => (nz.table = nz.raw_data /\ ~nz.raised)
        /\ nz.failed # "none" => (nz.table = nz.previous /\ nz.raised)

\* an insert fails after the delete: the previous rows are still there
C26_Witness ==
    /\ nz.fn = "db_save"
    /\ nz.failed = "insert"
    /\ nz.previous = [w \in WhSkus |-> 7]
    /\ nz.raw_data # nz.previous
    /\ nz.table = [w \in WhSkus |-> 7]
    /\ nz.raised

(***************************************************************************)
(* Mappings of warehouse SKUs that left the snapshot.                      *)
(***************************************************************************)
\* C27: every warehouse row of the frame carregar_estoque_interno returns
\* belongs to a warehouse SKU that has a row in estoque_mercos and carries the
\* quantity of that row; the mapping of a warehouse SKU that the last scrape
\* dropped shows no row with the quantity cached in the mapping
C27_NoRowFromStaleMapping ==
    cf.loaded # "none" =>
        \A k \in DOMAIN cf.interno_df :
            LET w == cf.interno_df[k].Produto
            IN  /\ cf.estoque[w] # 0
                /\ cf.interno_df[k].Estoque = cf.estoque[w]

(***************************************************************************)
(* The pairing of shipment ids and lookup results.                         *)
(***************************************************************************)
\* C28: whatever the order of unique_shipping_ids and the order in which the
\* lookups complete, shipment_dict maps each shipment id to the result of the
\* lookup of that id, and every sales record carries the logistic type and
\* cost of the shipment of its own order
C28_ResultsPairedWithOwnId ==
    /\ (pc = "process" \/ result.kind = "frame") =>
            /\ DOMAIN shipment_dict = Range(unique_shipping_ids)
            /\ \A i \in DOMAIN shipment_dict : shipment_dict[i] = ShipmentDetails(i)
    /\ \A r \in AllRecs :
            /\ r.logistic_cost = ShipmentCost(upstream[r.order_id].shipping_id)
            /\ r.logistic_type = ShipmentType(upstream[r.order_id].shipping_id)

\* the first order ships with id 1 and the second with id 2, the id list is
\* <<2, 1>>: the records carry 5 and 10
C28_Witness ==
    /\ result.kind = "frame"
    /\ unique_shipping_ids = <<2, 1>>
    /\ Len(result.frame) = 2
    /\ upstream[1].shipping_id = 1
    /\ upstream[2].shipping_id = 2
    /\ result.frame[1].logistic_cost = 5
    /\ result.frame[2].logistic_cost = 10

(***************************************************************************)
(* Partially refunded orders of several line items.                        *)
(***************************************************************************)
\* the records of the order o in the frame get_sales_data returns
FrameRecordsOf(o) == SelectSeq(result.frame, LAMBDA r : r.order_id = o)

\* C29: for every partially_refunded order with records in the returned
\* frame, whatever the number of its line items, the sum of
\* paid_amount_calculated_no_ship_cost over the order's records is the order's
\* paid_amount; the revenue total counts it once per order
C29_RefundedOrderCountedOnce ==
    result.kind = "frame" =>
        /\ \A o \in DOMAIN upstream :
                (upstream[o].status = "partially_refunded" /\ FrameRecordsOf(o) # <<>>) =>
                    SeqSum(NoShipOf(FrameRecordsOf(o))) = upstream[o].paid_amount
        /\ (\A o \in DOMAIN upstream : upstream[o].status = "partially_refunded")
                => fat_total = SeqSum([o \in DOMAIN upstream |->
                                        IF FrameRecordsOf(o) # <<>>
                                            THEN upstream[o].paid_amount ELSE 0])

(***************************************************************************)
(* Pagination over a total that is a multiple of the page size.            *)
(***************************************************************************)
\* the while loop of lines 339-351 has been left by its break
PagingEnded == pc # "paging" /\ result.logged # "MercadoLivreAPIError"

\* C30: the loop never issues more than total \div 50 + 1 requests, so it ends
\* for every finite result set; when the total is k x 50, 0 included, the loop
\* ends after exactly k + 1 requests, the last of which returns an empty page,
\* and all_orders holds the k x 50 orders of the endpoint, each once
C30_ExactMultipleTakesOneMoreRequest ==
    LET k == Len(upstream) \div Limit
    IN  /\ Len(requests) <= k + 1
        /\ (PagingEnded /\ Len(upstream) % Limit = 0) =>
                /\ Len(requests) = k + 1
                /\ \A j \in 1..Len(requests) : requests[j] = (j - 1) * Limit
                /\ PageAt(requests[k + 1], Limit) = <<>>
                /\ Len(all_orders) = k * Limit
                /\ \A i \in 1..Len(all_orders) : all_orders[i].id = i

\* 100 orders: requests at offsets 0, 50 and 100, the third page empty
C30_Witness ==
    /\ Len(upstream) = 2 * Limit
    /\ pc = "shipments"
    /\ requests = <<0, Limit, 2 * Limit>>
    /\ Len(all_orders) = 2 * Limit

====
